---------------------------- MODULE Spec2Model ----------------------------
(***************************************************************************)
(* A model of rap_obsidian_utils: the front-matter utility (cli.py) and    *)
(* the one-way markdown sync utility (sync.py).                            *)
(*                                                                         *)
(* Text is modelled character by character: a Python str is a sequence of  *)
(* one-character strings, "\n" being the line break.  A non-ASCII code     *)
(* point is written as its code ("u2013" is the en-dash U+2013); it is one *)
(* element of the sequence like any other character.                       *)
(***************************************************************************)
EXTENDS Integers, Sequences, FiniteSets, TLC

(***************************************************************************)
(* Characters and the str / re primitives the code uses.                   *)
(***************************************************************************)
Digits == <<"0","1","2","3","4","5","6","7","8","9">>

UpperLetters == <<"A","B","C","D","E","F","G","H","I","J","K","L","M",
                  "N","O","P","Q","R","S","T","U","V","W","X","Y","Z">>

LowerLetters == <<"a","b","c","d","e","f","g","h","i","j","k","l","m",
                  "n","o","p","q","r","s","t","u","v","w","x","y","z">>

Range(f) == {f[i] : i \in DOMAIN f}

DigitChars == Range(Digits)

UpperChars == Range(UpperLetters)

AlphaChars == Range(UpperLetters) \cup Range(LowerLetters)

\* \d
IsDigit(c) == c \in DigitChars

\* [A-Za-z]
IsAlpha(c) == c \in AlphaChars

\* \s on text that is ASCII
IsSpace(c) == c \in {" ", "\t", "\n", "\r"}

\* \w, the characters between which \b finds no boundary
IsWordChar(c) == IsAlpha(c) \/ IsDigit(c) \/ c = "_"

\* int() of one digit
DigitVal(c) == (CHOOSE i \in DOMAIN Digits : Digits[i] = c) - 1

\* str.lower() of one character
LowerChar(c) ==
    IF c \in UpperChars
    THEN LowerLetters[CHOOSE i \in DOMAIN UpperLetters : UpperLetters[i] = c]
    ELSE c

\* str.lower()
LowerStr(s) == [i \in DOMAIN s |-> LowerChar(s[i])]

RECURSIVE Flatten(_)
\* "".join(parts)
Flatten(parts) ==
    IF parts = <<>> THEN <<>> ELSE Head(parts) \o Flatten(Tail(parts))

\* sep.join(parts)
RECURSIVE Join(_, _)
Join(parts, sep) ==
    IF parts = <<>> THEN <<>>
    ELSE IF Len(parts) = 1 THEN parts[1]
    ELSE parts[1] \o sep \o Join(Tail(parts), sep)

\* s[i:j+1] of Python, 1-based and inclusive; empty when j < i
Slice(s, i, j) == IF j < i THEN <<>> ELSE SubSeq(s, i, j)

\* s.startswith(p, i-1): p occurs in s at index i
OccursAt(s, p, i) ==
    /\ i >= 1
    /\ i + Len(p) - 1 <= Len(s)
    /\ \A k \in 1..Len(p) : s[i + k - 1] = p[k]

\* p in s
Contains(s, p) == \E i \in 1..(Len(s) + 1) : OccursAt(s, p, i)

\* the least element of a non-empty set of integers
Least(S) == CHOOSE x \in S : \A y \in S : x <= y

\* str.strip()
Strip(s) ==
    LET keep == {i \in DOMAIN s : ~IsSpace(s[i])}
    IN  IF keep = {} THEN <<>>
        ELSE Slice(s, Least(keep), CHOOSE j \in keep : \A k \in keep : k <= j)

\* re.sub(r'\s+', ' ', s)
CollapseSpaces(s) ==
    Flatten([i \in DOMAIN s |->
        IF IsSpace(s[i])
        THEN (IF i > 1 /\ IsSpace(s[i - 1]) THEN <<>> ELSE <<" ">>)
        ELSE <<s[i]>>])

\* the index after a greedy \s* that starts at i
SkipSpaces(s, i) ==
    Least({j \in i..(Len(s) + 1) :
             /\ \A k \in i..(j - 1) : IsSpace(s[k])
             /\ (j > Len(s) \/ ~IsSpace(s[j]))})

\* the last index of a greedy [A-Za-z]+ that starts at i (s[i] is a letter)
AlphaRunEnd(s, i) ==
    Least({j \in i..Len(s) :
             /\ \A k \in i..j : IsAlpha(s[k])
             /\ (j = Len(s) \/ ~IsAlpha(s[j + 1]))})

\* \d{4} at index i
FourDigitsAt(s, i) ==
    /\ i >= 1
    /\ i + 3 <= Len(s)
    /\ \A k \in i..(i + 3) : IsDigit(s[k])

\* int() of a string of digits
RECURSIVE ToInt(_)
ToInt(s) ==
    IF s = <<>> THEN 0
    ELSE 10 * ToInt(SubSeq(s, 1, Len(s) - 1)) + DigitVal(s[Len(s)])

(***************************************************************************)
(* cli.py: clean_to_ascii and normalize_date.                              *)
(***************************************************************************)

\* The code points the model's inputs may hold beyond ASCII.
NonAsciiChars == {"u2013", "u2014", "u2010", "u2011", "u2012", "u2015",
                  "u00ad", "u00a0", "u2002", "u2003", "u2009", "u200a",
                  "u200b", "u202f", "u205f", "u3000", "u00e9"}

\* replacements of clean_to_ascii, one character to its replacement
AsciiReplacement(c) ==
    IF c \in {"u2013", "u2014", "u2010", "u2011", "u2012", "u2015"} THEN <<"-">>
    ELSE IF c \in {"u00ad", "u200b"} THEN <<>>
    ELSE IF c \in {"u00a0", "u2002", "u2003", "u2009", "u200a",
                   "u202f", "u205f", "u3000"} THEN <<" ">>
    ELSE <<c>>

\* ord(char) < 128
IsAscii(c) == c \notin NonAsciiChars

clean_to_ascii(text) ==
    SelectSeq(Flatten([i \in DOMAIN text |-> AsciiReplacement(text[i])]), IsAscii)

non_date_patterns ==
    { <<"n","o","t"," ","s","p","e","c","i","f","i","e","d">>,
      <<"u","n","k","n","o","w","n">>,
      <<"n","/","a">>,
      <<"n","o","n","e">>,
      <<"t","b","d">>,
      <<"u","n","d","a","t","e","d">> }

\* month_names as <<key, value>> pairs
month_names ==
    { <<<<"j","a","n">>, <<"J","a","n","u","a","r","y">>>>,
      <<<<"j","a","n","u","a","r","y">>, <<"J","a","n","u","a","r","y">>>>,
      <<<<"f","e","b">>, <<"F","e","b","r","u","a","r","y">>>>,
      <<<<"f","e","b","r","u","a","r","y">>, <<"F","e","b","r","u","a","r","y">>>>,
      <<<<"m","a","r">>, <<"M","a","r","c","h">>>>,
      <<<<"m","a","r","c","h">>, <<"M","a","r","c","h">>>>,
      <<<<"a","p","r">>, <<"A","p","r","i","l">>>>,
      <<<<"a","p","r","i","l">>, <<"A","p","r","i","l">>>>,
      <<<<"m","a","y">>, <<"M","a","y">>>>,
      <<<<"j","u","n">>, <<"J","u","n","e">>>>,
      <<<<"j","u","n","e">>, <<"J","u","n","e">>>>,
      <<<<"j","u","l">>, <<"J","u","l","y">>>>,
      <<<<"j","u","l","y">>, <<"J","u","l","y">>>>,
      <<<<"a","u","g">>, <<"A","u","g","u","s","t">>>>,
      <<<<"a","u","g","u","s","t">>, <<"A","u","g","u","s","t">>>>,
      <<<<"s","e","p">>, <<"S","e","p","t","e","m","b","e","r">>>>,
      <<<<"s","e","p","t">>, <<"S","e","p","t","e","m","b","e","r">>>>,
      <<<<"s","e","p","t","e","m","b","e","r">>, <<"S","e","p","t","e","m","b","e","r">>>>,
      <<<<"o","c","t">>, <<"O","c","t","o","b","e","r">>>>,
      <<<<"o","c","t","o","b","e","r">>, <<"O","c","t","o","b","e","r">>>>,
      <<<<"n","o","v">>, <<"N","o","v","e","m","b","e","r">>>>,
      <<<<"n","o","v","e","m","b","e","r">>, <<"N","o","v","e","m","b","e","r">>>>,
      <<<<"d","e","c">>, <<"D","e","c","e","m","b","e","r">>>>,
      <<<<"d","e","c","e","m","b","e","r">>, <<"D","e","c","e","m","b","e","r">>>> }

\* raw.lower() in month_names
IsMonth(raw) == \E e \in month_names : e[1] = LowerStr(raw)

\* month_names[raw.lower()]
MonthName(raw) == (CHOOSE e \in month_names : e[1] = LowerStr(raw))[2]

\* season_map in its insertion order, which is the order the loop tries the keys
season_map ==
    << <<<<"s","p","r","i","n","g">>, <<"S","p","r","i","n","g">>>>,
       <<<<"s","u","m","m","e","r">>, <<"S","u","m","m","e","r">>>>,
       <<<<"f","a","l","l">>, <<"F","a","l","l">>>>,
       <<<<"a","u","t","u","m","n">>, <<"F","a","l","l">>>>,
       <<<<"w","i","n","t","e","r">>, <<"W","i","n","t","e","r">>>>,
       <<<<"q","1">>, <<"Q","1">>>>,
       <<<<"q","2">>, <<"Q","2">>>>,
       <<<<"q","3">>, <<"Q","3">>>>,
       <<<<"q","4">>, <<"Q","4">>>> >>

\* calendar.month_name[1..12]
calendar_month_name ==
    << <<"J","a","n","u","a","r","y">>,
       <<"F","e","b","r","u","a","r","y">>,
       <<"M","a","r","c","h">>,
       <<"A","p","r","i","l">>,
       <<"M","a","y">>,
       <<"J","u","n","e">>,
       <<"J","u","l","y">>,
       <<"A","u","g","u","s","t">>,
       <<"S","e","p","t","e","m","b","e","r">>,
       <<"O","c","t","o","b","e","r">>,
       <<"N","o","v","e","m","b","e","r">>,
       <<"D","e","c","e","m","b","e","r">> >>


\* year_match: re.search(r'\b(19|20)\d{2}\b', cleaned) matches at index i
YearAt(s, i) ==
    /\ FourDigitsAt(s, i)
    /\ Slice(s, i, i + 1) \in {<<"1","9">>, <<"2","0">>}
    /\ (i = 1 \/ ~IsWordChar(s[i - 1]))
    /\ (i + 3 = Len(s) \/ ~IsWordChar(s[i + 4]))

\* range_pattern r'([A-Za-z]+)\s*[-/]\s*([A-Za-z]+)\s*(\d{4})?' matches at i
RangeAt(s, i) ==
    /\ IsAlpha(s[i])
    /\ LET k == SkipSpaces(s, AlphaRunEnd(s, i) + 1)
       IN  /\ k <= Len(s)
           /\ s[k] \in {"-", "/"}
           /\ LET m == SkipSpaces(s, k + 1)
              IN  m <= Len(s) /\ IsAlpha(s[m])

\* range_match.group(1), for the match at i
RangeGroup1(s, i) == Slice(s, i, AlphaRunEnd(s, i))

\* range_match.group(2), for the match at i
RangeGroup2(s, i) ==
    LET m == SkipSpaces(s, SkipSpaces(s, AlphaRunEnd(s, i) + 1) + 1)
    IN  Slice(s, m, AlphaRunEnd(s, m))

\* the index after r'\s*,?\s*' that starts at k
SkipCommaSpaces(s, k) ==
    LET c == SkipSpaces(s, k)
    IN  IF c <= Len(s) /\ s[c] = "," THEN SkipSpaces(s, c + 1) ELSE c

\* month_year_pattern r'([A-Za-z]+)\s*,?\s*(\d{4})' matches at i
MonthYearAt(s, i) ==
    /\ IsAlpha(s[i])
    /\ FourDigitsAt(s, SkipCommaSpaces(s, AlphaRunEnd(s, i) + 1))

\* r'(\d{1,2})' takes n characters at i
DigitsAt(s, i, n) ==
    /\ i >= 1
    /\ i + n - 1 <= Len(s)
    /\ \A k \in i..(i + n - 1) : IsDigit(s[k])

\* full_date_patterns[0] r'([A-Za-z]+)\s+(\d{1,2}),?\s*(\d{4})' matches at i
FullDate1At(s, i) ==
    /\ IsAlpha(s[i])
    /\ LET e == AlphaRunEnd(s, i)
       IN  /\ e + 1 <= Len(s)
           /\ IsSpace(s[e + 1])
           /\ LET d == SkipSpaces(s, e + 1)
              IN  \E n \in {1, 2} :
                     /\ DigitsAt(s, d, n)
                     /\ LET c == IF d + n <= Len(s) /\ s[d + n] = ","
                                 THEN d + n + 1 ELSE d + n
                        IN  FourDigitsAt(s, SkipSpaces(s, c))

\* full_date_patterns[1] r'(\d{1,2})\s+([A-Za-z]+)\s*,?\s*(\d{4})' matches at i
\* with the letters starting at a
FullDate2At(s, i, a) ==
    \E n \in {1, 2} :
       /\ DigitsAt(s, i, n)
       /\ i + n <= Len(s)
       /\ IsSpace(s[i + n])
       /\ a = SkipSpaces(s, i + n)
       /\ a <= Len(s)
       /\ IsAlpha(s[a])
       /\ FourDigitsAt(s, SkipCommaSpaces(s, AlphaRunEnd(s, a) + 1))

\* numeric_patterns[0] r'(\d{1,2})[/-](\d{4})' matches at i, the month n digits
Numeric1At(s, i, n) ==
    /\ DigitsAt(s, i, n)
    /\ i + n <= Len(s)
    /\ s[i + n] \in {"/", "-"}
    /\ FourDigitsAt(s, i + n + 1)

\* numeric_patterns[1] r'(\d{4})[/-](\d{1,2})' matches at i
Numeric2At(s, i) ==
    /\ FourDigitsAt(s, i)
    /\ i + 5 <= Len(s)
    /\ s[i + 4] \in {"/", "-"}
    /\ IsDigit(s[i + 5])

\* f"{name} {year}"
NameYear(name, year) == name \o <<" ">> \o year

\* the numeric rules and what follows them (cli.py lines 160-177)
NormalizeNumeric(cleaned, year) ==
    LET n1 == {i \in DOMAIN cleaned : \E n \in {1, 2} : Numeric1At(cleaned, i, n)}
        m1 == IF n1 = {} THEN 0
              ELSE LET i == Least(n1)
                       n == CHOOSE n \in {1, 2} : Numeric1At(cleaned, i, n)
                   IN  ToInt(Slice(cleaned, i, i + n - 1))
        n2 == {i \in DOMAIN cleaned : Numeric2At(cleaned, i)}
        m2 == IF n2 = {} THEN 0
              ELSE LET i == Least(n2)
                   IN  IF DigitsAt(cleaned, i + 5, 2)
                       THEN ToInt(Slice(cleaned, i + 5, i + 6))
                       ELSE ToInt(Slice(cleaned, i + 5, i + 5))
    IN  IF n1 # {} /\ 1 <= m1 /\ m1 <= 12
        THEN NameYear(calendar_month_name[m1], year)
        ELSE IF n2 # {} /\ 1 <= m2 /\ m2 <= 12
        THEN NameYear(calendar_month_name[m2], year)
        ELSE IF Len(cleaned) = 4 /\ YearAt(cleaned, 1)
        THEN year
        ELSE cleaned

\* the month rules (cli.py lines 139-158), then the numeric ones
NormalizeMonth(cleaned, year) ==
    LET my == {i \in DOMAIN cleaned : MonthYearAt(cleaned, i)}
        f1 == {i \in DOMAIN cleaned : FullDate1At(cleaned, i)}
        f2 == {i \in DOMAIN cleaned : \E a \in DOMAIN cleaned : FullDate2At(cleaned, i, a)}
        g1 == IF my = {} THEN <<>> ELSE RangeGroup1(cleaned, Least(my))
        g2 == IF f1 = {} THEN <<>> ELSE RangeGroup1(cleaned, Least(f1))
        g3 == IF f2 = {} THEN <<>>
              ELSE LET a == CHOOSE a \in DOMAIN cleaned : FullDate2At(cleaned, Least(f2), a)
                   IN  RangeGroup1(cleaned, a)
    IN  IF IsMonth(g1) THEN NameYear(MonthName(g1), year)
        ELSE IF IsMonth(g2) THEN NameYear(MonthName(g2), year)
        ELSE IF IsMonth(g3) THEN NameYear(MonthName(g3), year)
        ELSE NormalizeNumeric(cleaned, year)

\* the season/quarter rule (cli.py lines 134-137), then the month rules
NormalizeSeason(cleaned, year) ==
    LET hits == {k \in DOMAIN season_map : Contains(LowerStr(cleaned), season_map[k][1])}
    IN  IF hits # {} THEN NameYear(season_map[Least(hits)][2], year)
        ELSE NormalizeMonth(cleaned, year)

\* NormalizeRange with the two months in the other order in what it returns
NormalizeRangeSwapped(cleaned, year) ==
    LET r == {i \in DOMAIN cleaned : RangeAt(cleaned, i)}
    IN  IF /\ r # {}
           /\ IsMonth(RangeGroup1(cleaned, Least(r)))
           /\ IsMonth(RangeGroup2(cleaned, Least(r)))
        THEN MonthName(RangeGroup2(cleaned, Least(r))) \o <<"-">>
                 \o NameYear(MonthName(RangeGroup1(cleaned, Least(r))), year)
        ELSE NormalizeSeason(cleaned, year)

\* the month-range rule (cli.py lines 123-132), then the season rule
NormalizeRange(cleaned, year) ==
    LET r == {i \in DOMAIN cleaned : RangeAt(cleaned, i)}
    IN  IF /\ r # {}
           /\ IsMonth(RangeGroup1(cleaned, Least(r)))
           /\ IsMonth(RangeGroup2(cleaned, Least(r)))
        THEN MonthName(RangeGroup1(cleaned, Least(r))) \o <<"-">>
                 \o NameYear(MonthName(RangeGroup2(cleaned, Least(r))), year)
        ELSE NormalizeSeason(cleaned, year)

normalize_date(date_str) ==
    IF date_str = <<>> THEN <<>>
    ELSE LET cleaned == CollapseSpaces(Strip(clean_to_ascii(date_str)))
             years == {i \in DOMAIN cleaned : YearAt(cleaned, i)}
         IN  IF LowerStr(cleaned) \in non_date_patterns \/ cleaned = <<>>
             THEN cleaned
             ELSE IF years = {} THEN cleaned
             ELSE NormalizeRange(cleaned, Slice(cleaned, Least(years), Least(years) + 3))


(***************************************************************************)
(* cli.py: extract_metadata_from_markdown.                                 *)
(***************************************************************************)

\* MarkdownMetadata(title, authors, book, publication_date)
MarkdownMetadata(title, authors, book, publication_date) ==
    [title |-> title, authors |-> authors, book |-> book,
     publication_date |-> publication_date]

\* ^ under re.MULTILINE: index i starts a line
LineStart(s, i) == i = 1 \/ (i > 1 /\ i <= Len(s) + 1 /\ s[i - 1] = "\n")

\* the last index of the lazy (.+?) that starts at q (s[q] is no white space)
\* and is followed by (?:\s*$|\s*\n): the last character of q's line that is
\* not white space
FieldEnd(s, q) ==
    CHOOSE j \in q..Len(s) :
       /\ ~IsSpace(s[j])
       /\ \A k \in q..j : s[k] # "\n"
       /\ \A k \in (j + 1)..Len(s) :
             (\A m \in (j + 1)..k : s[m] # "\n") => IsSpace(s[k])

\* group(1).strip() of r'<marker>\s*(.+?)(?:\s*$|\s*\n)' for the marker that
\* ends before index start: the greedy \s* runs over line breaks, so the
\* value is taken from the first text after the marker; "" when only white
\* space follows
FieldValue(s, start) ==
    LET q == SkipSpaces(s, start)
    IN  IF q > Len(s) THEN <<>> ELSE Slice(s, q, FieldEnd(s, q))

\* the value after the first occurrence of marker anywhere in the text
\* (the three ** patterns are not anchored to a line start); "" when absent
MarkerValue(s, marker) ==
    LET hits == {i \in DOMAIN s : OccursAt(s, marker, i)}
    IN  IF hits = {} THEN <<>> ELSE FieldValue(s, Least(hits) + Len(marker))

\* title: r'^#\s+(.+?)(?:\s*$|\s*\n)' under re.MULTILINE
ExtractTitle(s) ==
    LET hits == {i \in DOMAIN s :
                    /\ LineStart(s, i)
                    /\ s[i] = "#"
                    /\ i + 1 <= Len(s)
                    /\ IsSpace(s[i + 1])}
    IN  IF hits = {} THEN <<>> ELSE FieldValue(s, Least(hits) + 1)

\* r'\s+and\s+' matches at i; the index after the match, 0 when there is none
AndSeparatorEnd(s, i) ==
    IF i <= Len(s) /\ IsSpace(s[i])
    THEN LET a == SkipSpaces(s, i)
         IN  IF /\ OccursAt(s, <<"a","n","d">>, a)
                /\ a + 3 <= Len(s)
                /\ IsSpace(s[a + 3])
             THEN SkipSpaces(s, a + 3)
             ELSE 0
    ELSE 0

\* re.split(r'[,;&]|\s+and\s+', s): the pieces between the separators; from
\* is where the current piece starts and i the index looked at
RECURSIVE SplitFrom(_, _, _)
SplitFrom(s, from, i) ==
    IF i > Len(s) THEN <<Slice(s, from, Len(s))>>
    ELSE IF s[i] \in {",", ";", "&"}
    THEN <<Slice(s, from, i - 1)>> \o SplitFrom(s, i + 1, i + 1)
    ELSE IF AndSeparatorEnd(s, i) # 0
    THEN <<Slice(s, from, i - 1)>>
            \o SplitFrom(s, AndSeparatorEnd(s, i), AndSeparatorEnd(s, i))
    ELSE SplitFrom(s, from, i + 1)

NonEmpty(t) == t # <<>>

\* [a.strip() for a in re.split(...) if a.strip()]
SplitAuthors(authors_str) ==
    LET pieces == SplitFrom(authors_str, 1, 1)
    IN  SelectSeq([i \in DOMAIN pieces |-> Strip(pieces[i])], NonEmpty)

extract_metadata_from_markdown(content) ==
    MarkdownMetadata(
        ExtractTitle(content),
        SplitAuthors(MarkerValue(content,
            <<"*","*","A","u","t","h","o","r","(","s",")",":","*","*">>)),
        MarkerValue(content,
            <<"*","*","P","u","b","l","i","c","a","t","i","o","n",":","*","*">>),
        normalize_date(MarkerValue(content,
            <<"*","*","D","a","t","e",":","*","*">>)))

(***************************************************************************)
(* cli.py: add_title_to_frontmatter.                                       *)
(***************************************************************************)

\* where the closing "\n---" of frontmatter_pattern r'^---\n(.*?)\n---'
\* (re.DOTALL, matched at the start of the text) may be
FrontmatterCloses(content) ==
    {e \in 5..Len(content) : OccursAt(content, <<"\n","-","-","-">>, e)}

\* frontmatter_pattern.match(content) is not None
HasFrontmatter(content) ==
    /\ OccursAt(content, <<"-","-","-","\n">>, 1)
    /\ FrontmatterCloses(content) # {}

\* match.group(1): lazy, so up to the first closing delimiter
FrontmatterGroup(content) == Slice(content, 5, Least(FrontmatterCloses(content)) - 1)

\* content[match.end():]
AfterFrontmatter(content) ==
    Slice(content, Least(FrontmatterCloses(content)) + 4, Len(content))

\* f'  - "[[{author}]]"'
AuthorLine(author) == <<" "," ","-"," ","\"","[","[">> \o author \o <<"]","]","\"">>

\* new_fields (lines 232-238)
NewFields(metadata) ==
    <<"T","i","t","l","e",":"," ","\"">> \o metadata.title \o <<"\"","\n">>
    \o <<"A","u","t","h","o","r","s",":","\n">>
    \o Join([i \in DOMAIN metadata.authors |-> AuthorLine(metadata.authors[i])], <<"\n">>)
    \o <<"\n">>
    \o <<"B","o","o","k",":"," ","\"","[","[">> \o metadata.book \o <<"]","]","\"","\n">>
    \o <<"D","a","t","e",":"," ","\"">> \o metadata.publication_date \o <<"\"">>

\* ExistingYaml without the strip(): the variant that keeps the block as it is
ExistingYamlVerbatim(content) == FrontmatterGroup(content)

\* existing_yaml = match.group(1).strip()
ExistingYaml(content) == Strip(FrontmatterGroup(content))

add_title_to_frontmatter(content, metadata) ==
    IF HasFrontmatter(content)
    THEN <<"-","-","-","\n">> \o NewFields(metadata) \o <<"\n">>
             \o ExistingYaml(content) \o <<"\n","-","-","-">> \o AfterFrontmatter(content)
    ELSE <<"-","-","-","\n">> \o NewFields(metadata) \o <<"\n","-","-","-","\n">> \o content

(***************************************************************************)
(* cli.py: validate_frontmatter.                                           *)
(***************************************************************************)

\* r'^<key>\s*"(.+?)"' under re.MULTILINE matches at i: the key at a line
\* start, white space, a quote, and a closing quote later on the same line
\* with at least one character in between
QuotedAt(fm, key, i) ==
    /\ LineStart(fm, i)
    /\ OccursAt(fm, key, i)
    /\ LET q == SkipSpaces(fm, i + Len(key))
       IN  /\ q <= Len(fm)
           /\ fm[q] = "\""
           /\ \E r \in (q + 2)..Len(fm) :
                 /\ fm[r] = "\""
                 /\ \A k \in (q + 1)..(r - 1) : fm[k] # "\n"

\* group(1) of the match at i: lazy, so up to the first quote that closes
QuotedGroup(fm, key, i) ==
    LET q == SkipSpaces(fm, i + Len(key))
        r == Least({r \in (q + 2)..Len(fm) : fm[r] = "\""})
    IN  Slice(fm, q + 1, r - 1)

\* book_match: r'^Book:\s*(.+?)$' under re.MULTILINE finds a match
BookLineFound(fm) ==
    \E i \in DOMAIN fm :
       /\ LineStart(fm, i)
       /\ OccursAt(fm, <<"B","o","o","k",":">>, i)
       /\ \E x \in (i + 5)..Len(fm) :
             /\ fm[x] # "\n"
             /\ \A k \in (i + 5)..(x - 1) : IsSpace(fm[k])

\* the errors of the Title check (lines 288-292)
TitleErrors(fm, metadata) ==
    LET hits == {i \in DOMAIN fm : QuotedAt(fm, <<"T","i","t","l","e",":">>, i)}
    IN  IF hits = {} THEN << <<"Title field not found in front matter", <<>>>> >>
        ELSE IF QuotedGroup(fm, <<"T","i","t","l","e",":">>, Least(hits)) # metadata.title
        THEN << <<"Title mismatch",
                  QuotedGroup(fm, <<"T","i","t","l","e",":">>, Least(hits))>> >>
        ELSE <<>>

\* the errors of the Authors check (lines 295-301)
AuthorsErrors(fm, metadata) ==
    IF ~Contains(fm, <<"A","u","t","h","o","r","s",":">>)
    THEN << <<"Authors field not found in front matter", <<>>>> >>
    ELSE LET missing(a) == ~Contains(fm, <<"\"","[","[">> \o a \o <<"]","]","\"">>)
             absent == SelectSeq(metadata.authors, missing)
         IN  [i \in DOMAIN absent |-> <<"Author not found in expected format", absent[i]>>]

\* the errors of the Book check (lines 304-310)
BookErrors(fm, metadata) ==
    IF Contains(fm, <<"B","o","o","k",":"," ","\"","[","[">> \o metadata.book \o <<"]","]","\"">>)
    THEN <<>>
    ELSE IF ~BookLineFound(fm)
    THEN << <<"Book field not found in front matter", <<>>>> >>
    ELSE << <<"Book field format incorrect", metadata.book>> >>

\* DateErrors were a Date value that differs from the expected one an error
DateErrorsStrict(fm, metadata) ==
    LET hits == {i \in DOMAIN fm : QuotedAt(fm, <<"D","a","t","e",":">>, i)}
    IN  IF hits = {} THEN << <<"Date field not found in front matter", <<>>>> >>
        ELSE IF QuotedGroup(fm, <<"D","a","t","e",":">>, Least(hits))
                   # metadata.publication_date
        THEN << <<"Date mismatch",
                  QuotedGroup(fm, <<"D","a","t","e",":">>, Least(hits))>> >>
        ELSE <<>>

\* the errors of the Date check (lines 313-315)
DateErrors(fm, metadata) ==
    IF {i \in DOMAIN fm : QuotedAt(fm, <<"D","a","t","e",":">>, i)} = {}
    THEN << <<"Date field not found in front matter", <<>>>> >>
    ELSE <<>>

\* the warning of the Date check (lines 316-317)
DateWarnings(fm, metadata) ==
    LET hits == {i \in DOMAIN fm : QuotedAt(fm, <<"D","a","t","e",":">>, i)}
    IN  IF hits # {} /\ QuotedGroup(fm, <<"D","a","t","e",":">>, Least(hits))
                           # metadata.publication_date
        THEN << <<"Date value (normalized from original)",
                  QuotedGroup(fm, <<"D","a","t","e",":">>, Least(hits))>> >>
        ELSE <<>>

\* the warnings for fields that are empty (lines 320-327)
EmptyWarnings(metadata) ==
    (IF metadata.title = <<>> THEN << <<"Title is empty", <<>>>> >> ELSE <<>>)
    \o (IF metadata.authors = <<>> THEN << <<"No authors found", <<>>>> >> ELSE <<>>)
    \o (IF metadata.book = <<>> THEN << <<"Book/Publication is empty", <<>>>> >> ELSE <<>>)
    \o (IF metadata.publication_date = <<>> THEN << <<"Date is empty", <<>>>> >> ELSE <<>>)

\* ValidationResult(is_valid, errors, warnings); an error or a warning is
\* <<the message, the text the message quotes>>
ValidationResult(is_valid, errors, warnings) ==
    [is_valid |-> is_valid, errors |-> errors, warnings |-> warnings]

validate_frontmatter(content, metadata) ==
    IF ~HasFrontmatter(content)
    THEN ValidationResult(FALSE,
             << <<"Front matter delimiters (---) not found at start of file", <<>>>> >>, <<>>)
    ELSE LET frontmatter == FrontmatterGroup(content)
             errs == TitleErrors(frontmatter, metadata)
                        \o AuthorsErrors(frontmatter, metadata)
                        \o BookErrors(frontmatter, metadata)
                        \o DateErrors(frontmatter, metadata)
             warnings == DateWarnings(frontmatter, metadata) \o EmptyWarnings(metadata)
         IN  ValidationResult(Len(errs) = 0, errs, warnings)

(***************************************************************************)
(* sync.py: the file system the sync utility works on.                     *)
(*                                                                         *)
(* A path is the sequence of its components.  A modification time is a     *)
(* number of ticks, TicksPerSecond ticks to the second, so that times that *)
(* differ by less than, exactly and more than the tolerance all occur.     *)
(* A file's SHA-256 digest is modelled by its content: two files have the  *)
(* same digest exactly when they have the same content.                    *)
(***************************************************************************)
TicksPerSecond == 2

\* the latest modification time a file of the model has
MaxMtime == 3

\* how many invocations of sync_main a behaviour holds
MaxRuns == 2

\* MTIME_TOLERANCE = 1.0 (seconds)
MTIME_TOLERANCE == 1 * TicksPerSecond

Mtimes == 0..MaxMtime

Contents == {"c1", "c2"}

NoFile == [kind |-> "none", mtime |-> 0, content |-> "none"]

\* what stat() and read() see of a regular file
RegularFiles == [kind : {"file"}, mtime : Mtimes, content : Contents]

\* a symbolic link in the source tree that rglob("*.md") yields
Symlink == [kind |-> "symlink", mtime |-> 0, content |-> "none"]

\* what a copy that failed half way leaves at the destination path
PartialFile == [kind |-> "file", mtime |-> MaxMtime, content |-> "partial"]

source_dir == <<"src">>

dest_dir == <<"dst">>

\* the markdown files the source tree may hold, relative to source_dir
RelPaths == { <<"a.md">>, <<"sub", "b.md">> }

\* paths of the destination tree that no source file maps to
DestOnlyPaths == { dest_dir \o <<"old.md">>, dest_dir \o <<"b.md">> }

SourcePaths == {source_dir \o r : r \in RelPaths}

DestPaths == {dest_dir \o r : r \in RelPaths}

AllPaths == SourcePaths \cup DestPaths \cup DestOnlyPaths

\* the order of path components under sorted(): plain string comparison
NameOrder == <<"a.md", "b.md", "dst", "old.md", "src", "sub">>

NameRank(n) == CHOOSE i \in DOMAIN NameOrder : NameOrder[i] = n

\* p < q for two paths, as pathlib compares them: component by component
RECURSIVE PathLess(_, _)
PathLess(p, q) ==
    IF q = <<>> THEN FALSE
    ELSE IF p = <<>> THEN TRUE
    ELSE IF p[1] # q[1] THEN NameRank(p[1]) < NameRank(q[1])
    ELSE PathLess(Tail(p), Tail(q))

\* sorted(S) for a set of paths
RECURSIVE SortedPaths(_)
SortedPaths(S) ==
    IF S = {} THEN <<>>
    ELSE LET m == CHOOSE p \in S : \A q \in S \ {p} : PathLess(p, q)
         IN  <<m>> \o SortedPaths(S \ {m})

\* source_path.relative_to(source_dir)
relative_to(path, dir) == Slice(path, Len(dir) + 1, Len(path))

\* DestPathOf with the directories of the relative path dropped: the variant
\* that would flatten the destination tree
DestPathOfFlat(relative_path) == dest_dir \o <<relative_path[Len(relative_path)]>>

\* dest_dir / relative_path
DestPathOf(relative_path) == dest_dir \o relative_path

\* the directories dest_path.parent.mkdir(parents=True) makes sure exist
Parents(path) == {Slice(path, 1, n) : n \in 1..(Len(path) - 1)}

\* compute_file_hash
compute_file_hash(f) == <<"sha256", f.content>>

\* should_sync_file with the tolerance left out of the mtime comparison
should_sync_file_NoTolerance(source, dest) ==
    IF dest.kind = "none" THEN <<TRUE, "NEW_FILE">>
    ELSE IF source.mtime > dest.mtime THEN <<TRUE, "MTIME_NEWER">>
    ELSE IF /\ source.mtime - dest.mtime <= MTIME_TOLERANCE
            /\ dest.mtime - source.mtime <= MTIME_TOLERANCE
            /\ compute_file_hash(source) # compute_file_hash(dest)
         THEN <<TRUE, "CONTENT_CHANGED">>
    ELSE <<FALSE, "None">>

\* should_sync_file on what exists(), stat() and the hashes give for the two
\* paths: <<should_sync, reason>>
should_sync_file(source, dest) ==
    IF dest.kind = "none" THEN <<TRUE, "NEW_FILE">>
    ELSE IF source.mtime > dest.mtime + MTIME_TOLERANCE THEN <<TRUE, "MTIME_NEWER">>
    ELSE IF /\ source.mtime - dest.mtime <= MTIME_TOLERANCE
            /\ dest.mtime - source.mtime <= MTIME_TOLERANCE
            /\ compute_file_hash(source) # compute_file_hash(dest)
         THEN <<TRUE, "CONTENT_CHANGED">>
    ELSE <<FALSE, "None">>


(***************************************************************************)
(* State.                                                                  *)
(***************************************************************************)
VARIABLES
    \* the sync utility (sync_main)
    files,        \* the file system: path -> what is at the path
    dirs,         \* the directories that exist under dest_dir
    pc,           \* where sync_main is: idle, plan, exec, done
    dry_run,      \* the --dry-run flag of the invocation
    scan,         \* find_markdown_files(source_dir), the list the plan loop walks
    planIdx,      \* the plan loop's position in scan
    candidates,   \* build_sync_plan's candidates
    skipped,      \* build_sync_plan's skipped
    execIdx,      \* execute_sync's position in candidates
    synced,       \* execute_sync's synced
    errors,       \* execute_sync's errors
    exitCode,     \* the invocation's exit status; -1 while it runs
    planFailed,   \* build_sync_plan raised in this invocation
    runs,         \* invocations started so far
    files0,       \* history: the file system when the invocation started
    dirs0,        \* history: the directories when the invocation started
    attempts,     \* history: the candidates execute_sync took up, in order, and
                  \* whether mkdir and copy2 succeeded for each
    written,      \* history: <<source path, path>> of every file the run wrote
    prev,         \* history: how the invocation before this one went
    \* should_sync_file on its own
    detSource, detDest, detOut,
    \* normalize_date on its own
    dateIn, dateOut, dateDone,
    dateTwice,    \* normalize_date(dateOut)
    dateAgain,    \* normalize_date was applied to dateOut
    \* add_title_to_frontmatter and validate_frontmatter on their own
    fmDoc,        \* the document
    fmMeta,       \* the metadata injected
    fmExpected,   \* the metadata validated against
    fmPc,         \* start, injected, twice, validated, validatedRaw
    fmInjected,   \* add_title_to_frontmatter(fmDoc, fmMeta)
    fmTwice,      \* add_title_to_frontmatter(fmInjected, fmMeta)
    fmResult,     \* the ValidationResult
    \* the front-matter utility (main)
    mPc,          \* where main is: start, read, process, write, done
    mHasFile,     \* a FILENAME argument was given
    mDryRun,      \* the --dry-run flag
    mInput,       \* the text of the input file
    mContent,     \* content, once read
    mMetadata,    \* metadata
    mModified,    \* modified_content
    mValidation,  \* validation
    mValidated,   \* history: validate_frontmatter has returned
    mReadFailed,  \* history: read_text raised
    mExit,        \* the exit status; -1 while main runs
    outDir,       \* the output directory exists
    outFile,      \* the output file: whether it exists, and its text
    outDir0,      \* history: outDir when main started
    outFile0,     \* history: outFile when main started
    \* extract_metadata_from_markdown on its own
    exLines,      \* the lines of the document
    exPc,         \* start, extracted, compared
    exMeta,       \* the metadata extracted from the document
    exDrop,       \* the index of the marker line left out; 0 when none is
    exMetaLess    \* the metadata extracted from the document without that line

syncVars == <<files, dirs, pc, dry_run, scan, planIdx, candidates, skipped,
              execIdx, synced, errors, exitCode, planFailed, runs, files0,
              dirs0, attempts, written, prev>>

detVars == <<detSource, detDest, detOut>>

dateVars == <<dateIn, dateOut, dateDone, dateTwice, dateAgain>>

fmVars == <<fmDoc, fmMeta, fmExpected, fmPc, fmInjected, fmTwice, fmResult>>

mainVars == <<mPc, mHasFile, mDryRun, mInput, mContent, mMetadata, mModified,
              mValidation, mValidated, mReadFailed, mExit, outDir, outFile,
              outDir0, outFile0>>

exVars == <<exLines, exPc, exMeta, exDrop, exMetaLess>>

vars == <<syncVars, detVars, dateVars, fmVars, mainVars, exVars>>

(***************************************************************************)
(* sync.py: build_sync_plan, execute_sync and sync_main, step by step.     *)
(***************************************************************************)

\* find_markdown_files: sorted(source_dir.rglob("*.md"))
find_markdown_files(fs) == SortedPaths({p \in SourcePaths : fs[p].kind # "none"})

\* SyncCandidate(source_path, dest_path, relative_path, reason)
SyncCandidate(source_path, reason) ==
    [source_path   |-> source_path,
     dest_path     |-> DestPathOf(relative_to(source_path, source_dir)),
     relative_path |-> relative_to(source_path, source_dir),
     reason        |-> reason]

\* prev when no invocation went before
NoPrev == [ran |-> FALSE, dry_run |-> FALSE, clean |-> FALSE, candidates |-> <<>>]

\* sync_main is called: lines 279-291, up to the first iteration of the loop
\* of build_sync_plan
StartSync ==
    /\ pc \in {"idle", "done"}
    /\ runs < MaxRuns
    /\ \E d \in BOOLEAN : dry_run' = d
    /\ pc' = "plan"
    /\ scan' = find_markdown_files(files)
    /\ planIdx' = 1
    /\ candidates' = <<>>
    /\ skipped' = <<>>
    /\ execIdx' = 1
    /\ synced' = <<>>
    /\ errors' = <<>>
    /\ exitCode' = -1
    /\ planFailed' = FALSE
    /\ runs' = runs + 1
    /\ files0' = files
    /\ dirs0' = dirs
    /\ attempts' = <<>>
    /\ written' = {}
    /\ prev' = IF pc = "done"
               THEN [ran |-> TRUE, dry_run |-> dry_run,
                     clean |-> ~planFailed /\ errors = <<>>,
                     candidates |-> candidates]
               ELSE NoPrev
    /\ UNCHANGED <<files, dirs>>

\* build_sync_plan, lines 118-120: a symbolic link is passed over
PlanSkipSymlink ==
    /\ pc = "plan"
    /\ planIdx <= Len(scan)
    /\ files[scan[planIdx]].kind = "symlink"
    /\ planIdx' = planIdx + 1
    /\ UNCHANGED <<files, dirs, pc, dry_run, scan, candidates, skipped, execIdx,
                   synced, errors, exitCode, planFailed, runs, prev, files0, dirs0,
                   attempts, written>>

\* build_sync_plan, lines 122-136: the file is examined and classified
PlanExamine ==
    /\ pc = "plan"
    /\ planIdx <= Len(scan)
    /\ files[scan[planIdx]].kind # "symlink"
    /\ LET source_path == scan[planIdx]
           relative_path == relative_to(source_path, source_dir)
           r == should_sync_file(files[source_path], files[DestPathOf(relative_path)])
       IN  IF r[1] /\ r[2] # "None"
           THEN /\ candidates' = Append(candidates, SyncCandidate(source_path, r[2]))
                /\ skipped' = skipped
           ELSE /\ skipped' = Append(skipped, relative_path)
                /\ candidates' = candidates
    /\ planIdx' = planIdx + 1
    /\ UNCHANGED <<files, dirs, pc, dry_run, scan, execIdx, synced, errors,
                   exitCode, planFailed, runs, prev, files0, dirs0, attempts, written>>

\* PlanRaises as it would be were the exception caught per file: the error is
\* recorded and the plan loop goes on
PlanRaisesCaught ==
    /\ pc = "plan"
    /\ planIdx <= Len(scan)
    /\ files[scan[planIdx]].kind # "symlink"
    /\ errors' = Append(errors, <<scan[planIdx], "error">>)
    /\ planIdx' = planIdx + 1
    /\ planFailed' = TRUE
    /\ UNCHANGED <<files, dirs, pc, dry_run, scan, candidates, skipped,
                   execIdx, synced, exitCode, runs, prev, files0, dirs0, attempts, written>>

\* a stat() or a read in should_sync_file raises: build_sync_plan does not
\* catch it, sync_main does (lines 290-294) and exits with status 1
PlanRaises ==
    /\ pc = "plan"
    /\ planIdx <= Len(scan)
    /\ files[scan[planIdx]].kind # "symlink"
    /\ pc' = "done"
    /\ exitCode' = 1
    /\ planFailed' = TRUE
    /\ UNCHANGED <<files, dirs, dry_run, scan, planIdx, candidates, skipped,
                   execIdx, synced, errors, runs, prev, files0, dirs0, attempts, written>>

\* build_sync_plan returns; sync_main lines 303-308
PlanDone ==
    /\ pc = "plan"
    /\ planIdx > Len(scan)
    /\ IF candidates = <<>>
       THEN pc' = "done" /\ exitCode' = 0
       ELSE pc' = "exec" /\ exitCode' = exitCode
    /\ UNCHANGED <<files, dirs, dry_run, scan, planIdx, candidates, skipped,
                   execIdx, synced, errors, planFailed, runs, prev, files0, dirs0,
                   attempts, written>>

\* ExecDry as it would be were the flag not looked at: the file is copied
ExecDryCopies ==
    /\ pc = "exec"
    /\ execIdx <= Len(candidates)
    /\ dry_run
    /\ LET c == candidates[execIdx]
       IN  /\ dirs' = dirs \cup Parents(c.dest_path)
           /\ files' = [files EXCEPT ![c.dest_path] =
                           [files[c.source_path] EXCEPT !.kind = "file"]]
           /\ written' = written \cup {<<c.source_path, c.dest_path>>}
           /\ synced' = Append(synced, c)
           /\ attempts' = Append(attempts, [candidate |-> c, ok |-> TRUE])
    /\ execIdx' = execIdx + 1
    /\ UNCHANGED <<pc, dry_run, scan, planIdx, candidates, skipped, errors,
                   exitCode, planFailed, runs, prev, files0, dirs0>>

\* execute_sync, lines 155-157: a dry run lists the candidate and goes on
ExecDry ==
    /\ pc = "exec"
    /\ execIdx <= Len(candidates)
    /\ dry_run
    /\ synced' = Append(synced, candidates[execIdx])
    /\ attempts' = Append(attempts, [candidate |-> candidates[execIdx], ok |-> TRUE])
    /\ execIdx' = execIdx + 1
    /\ UNCHANGED <<files, dirs, pc, dry_run, scan, planIdx, candidates, skipped,
                   errors, exitCode, planFailed, runs, prev, files0, dirs0, written>>

\* ExecCopy as it would be with a copy that does not carry the modification
\* time over: the destination gets the time of the copy
ExecCopyNoStat ==
    /\ pc = "exec"
    /\ execIdx <= Len(candidates)
    /\ ~dry_run
    /\ LET c == candidates[execIdx]
       IN  /\ dirs' = dirs \cup Parents(c.dest_path)
           /\ files' = [files EXCEPT ![c.dest_path] =
                           [files[c.source_path] EXCEPT !.kind = "file", !.mtime = MaxMtime]]
           /\ written' = written \cup {<<c.source_path, c.dest_path>>}
           /\ synced' = Append(synced, c)
           /\ attempts' = Append(attempts, [candidate |-> c, ok |-> TRUE])
    /\ execIdx' = execIdx + 1
    /\ UNCHANGED <<pc, dry_run, scan, planIdx, candidates, skipped, errors,
                   exitCode, planFailed, runs, prev, files0, dirs0>>

\* execute_sync, lines 159-165: mkdir and copy2 succeed
ExecCopy ==
    /\ pc = "exec"
    /\ execIdx <= Len(candidates)
    /\ ~dry_run
    /\ LET c == candidates[execIdx]
       IN  /\ dirs' = dirs \cup Parents(c.dest_path)
           /\ files' = [files EXCEPT ![c.dest_path] =
                           [files[c.source_path] EXCEPT !.kind = "file"]]
           /\ written' = written \cup {<<c.source_path, c.dest_path>>}
           /\ synced' = Append(synced, c)
           /\ attempts' = Append(attempts, [candidate |-> c, ok |-> TRUE])
    /\ execIdx' = execIdx + 1
    /\ UNCHANGED <<pc, dry_run, scan, planIdx, candidates, skipped, errors,
                   exitCode, planFailed, runs, prev, files0, dirs0>>

\* ExecFail as it would be were the exception to end the loop: the error is
\* recorded and no later candidate is taken up
ExecFailAborts ==
    /\ pc = "exec"
    /\ execIdx <= Len(candidates)
    /\ ~dry_run
    /\ errors' = Append(errors, <<candidates[execIdx].source_path, "error">>)
    /\ attempts' = Append(attempts, [candidate |-> candidates[execIdx], ok |-> FALSE])
    /\ execIdx' = Len(candidates) + 1
    /\ UNCHANGED <<files, dirs, written, pc, dry_run, scan, planIdx, candidates,
                   skipped, synced, exitCode, planFailed, runs, prev, files0, dirs0>>

\* execute_sync, lines 159-168: mkdir or copy2 raises.  mkdir may have failed
\* (nothing changed), or copy2 may have failed before it opened the
\* destination, or after it had started to write it.
ExecFail ==
    /\ pc = "exec"
    /\ execIdx <= Len(candidates)
    /\ ~dry_run
    /\ LET c == candidates[execIdx]
       IN  /\ \/ UNCHANGED <<files, dirs, written>>
              \/ /\ dirs' = dirs \cup Parents(c.dest_path)
                 /\ UNCHANGED <<files, written>>
              \/ /\ dirs' = dirs \cup Parents(c.dest_path)
                 /\ files' = [files EXCEPT ![c.dest_path] = PartialFile]
                 /\ written' = written \cup {<<c.source_path, c.dest_path>>}
           /\ errors' = Append(errors, <<c.source_path, "error">>)
           /\ attempts' = Append(attempts, [candidate |-> c, ok |-> FALSE])
    /\ execIdx' = execIdx + 1
    /\ UNCHANGED <<pc, dry_run, scan, planIdx, candidates, skipped, synced,
                   exitCode, planFailed, runs, prev, files0, dirs0>>

\* ExecDone without the final sys.exit(1)
ExecDoneAlwaysZero ==
    /\ pc = "exec"
    /\ execIdx > Len(candidates)
    /\ pc' = "done"
    /\ exitCode' = 0
    /\ UNCHANGED <<files, dirs, dry_run, scan, planIdx, candidates, skipped,
                   execIdx, synced, errors, planFailed, runs, prev, files0, dirs0,
                   attempts, written>>

\* execute_sync returns; sync_main lines 310-316
ExecDone ==
    /\ pc = "exec"
    /\ execIdx > Len(candidates)
    /\ pc' = "done"
    /\ exitCode' = IF errors # <<>> THEN 1 ELSE 0
    /\ UNCHANGED <<files, dirs, dry_run, scan, planIdx, candidates, skipped,
                   execIdx, synced, errors, planFailed, runs, prev, files0, dirs0,
                   attempts, written>>

\* The trees sync_main may be started on: in the source tree each path holds
\* a file, a symbolic link or nothing; in the destination tree a file or
\* nothing; a directory of the destination exists when a file is in it.
InitSync ==
    /\ files \in [AllPaths -> RegularFiles \cup {NoFile, Symlink}]
    /\ \A p \in AllPaths \ SourcePaths : files[p].kind # "symlink"
    /\ \A p \in SourcePaths : files[p].kind = "file" => files[p].content = "c1"
    /\ files[dest_dir \o <<"old.md">>] = [kind |-> "file", mtime |-> 0, content |-> "c2"]
    /\ files[dest_dir \o <<"b.md">>] \in {NoFile, [kind |-> "file", mtime |-> 0, content |-> "c2"]}
    /\ dirs = UNION {Parents(p) : p \in {q \in AllPaths \ SourcePaths : files[q].kind # "none"}}
    /\ pc = "idle"
    /\ dry_run = FALSE
    /\ scan = <<>>
    /\ planIdx = 1
    /\ candidates = <<>>
    /\ skipped = <<>>
    /\ execIdx = 1
    /\ synced = <<>>
    /\ errors = <<>>
    /\ exitCode = -1
    /\ planFailed = FALSE
    /\ runs = 0
    /\ files0 = files
    /\ dirs0 = dirs
    /\ attempts = <<>>
    /\ written = {}
    /\ prev = NoPrev

\* the sync variables of a behaviour that is about another part of the program
IdleSync ==
    /\ files = [p \in AllPaths |-> NoFile]
    /\ dirs = {}
    /\ pc = "off"
    /\ dry_run = FALSE
    /\ scan = <<>>
    /\ planIdx = 1
    /\ candidates = <<>>
    /\ skipped = <<>>
    /\ execIdx = 1
    /\ synced = <<>>
    /\ errors = <<>>
    /\ exitCode = -1
    /\ planFailed = FALSE
    /\ runs = 0
    /\ files0 = files
    /\ dirs0 = dirs
    /\ attempts = <<>>
    /\ written = {}
    /\ prev = NoPrev

(***************************************************************************)
(* should_sync_file applied to every pair of files.                        *)
(***************************************************************************)
InitDetect ==
    /\ detSource \in RegularFiles
    /\ detDest \in RegularFiles \cup {NoFile}
    /\ detOut = <<>>

IdleDetect ==
    /\ detSource = NoFile
    /\ detDest = NoFile
    /\ detOut = <<>>

Detect ==
    /\ detOut = <<>>
    /\ detOut' = should_sync_file(detSource, detDest)
    /\ UNCHANGED <<detSource, detDest>>

(***************************************************************************)
(* normalize_date applied to date strings.                                 *)
(***************************************************************************)
\* how many of DateWords an input draws from
MaxWord == 9

DateWords ==
    << <<>>,
       <<"2","0","1","5">>,
       <<"M","a","y">>,
       <<"c","i","r","c","a">>,
       <<"F","e","b">>,
       <<"s","p","r","i","n","g">>,
       <<"2","0","1","2">>,
       <<"T","B","D">>,
       <<"0","5">>,
       <<"1","3">>,
       <<"s","o","m","e","t","i","m","e">>,
       <<"1","8","5","0">>,
       <<"u2013">>,
       <<"Q","1">>,
       <<"2","0","2","3">> >>

Min(a, b) == IF a < b THEN a ELSE b

Words == {DateWords[i] : i \in 1..Min(MaxWord, Len(DateWords))}

Separators == { <<" ">>, <<"-">>, <<"/">>, <<",", " ">> }

\* what a date string may end with: nothing, or a year
DateTails == { <<>>, <<" ","2","0","1","5">> }

\* the date strings of the model: up to three words, what joins them, and
\* what the string ends with
InitDate ==
    /\ \E w1 \in Words, w2 \in Words, w3 \in Words, s1 \in Separators, s2 \in Separators,
          t \in DateTails :
          dateIn = w1 \o s1 \o w2 \o s2 \o w3 \o t
    /\ dateOut = <<>>
    /\ dateDone = FALSE
    /\ dateTwice = <<>>
    /\ dateAgain = FALSE

IdleDate ==
    /\ dateIn = <<>>
    /\ dateOut = <<>>
    /\ dateDone = TRUE
    /\ dateTwice = <<>>
    /\ dateAgain = TRUE

Normalize ==
    /\ ~dateDone
    /\ dateOut' = normalize_date(dateIn)
    /\ dateDone' = TRUE
    /\ UNCHANGED <<dateIn, dateTwice, dateAgain>>

\* normalize_date on what normalize_date returned
NormalizeAgain ==
    /\ dateDone
    /\ ~dateAgain
    /\ dateTwice' = normalize_date(dateOut)
    /\ dateAgain' = TRUE
    /\ UNCHANGED <<dateIn, dateOut, dateDone>>

(***************************************************************************)
(* add_title_to_frontmatter and validate_frontmatter applied to documents. *)
(***************************************************************************)
\* how many lines a document of this part has at most
MaxFmLines == 4

FmLines == { <<"-","-","-">>, <<"k",":"," ","v">>, <<>> }

\* the documents: up to MaxFmLines of FmLines, joined by line breaks
FmDocs ==
    UNION { {Join(ls, <<"\n">>) : ls \in [1..n -> FmLines]} : n \in 0..MaxFmLines }

Metas ==
    [title : {<<>>, <<"T">>},
     authors : {<<>>, <<<<"A">>, <<"C">>>>},
     book : {<<>>, <<"B">>},
     publication_date : {<<>>, <<"D">>}]

\* the other value of a field that has two
Other(v, a, b) == IF v = a THEN b ELSE a

\* the metadata a result is validated against: the metadata injected, or
\* that with another date, or that with another title
ExpectedFor(meta) ==
    { meta,
      [meta EXCEPT !.publication_date = Other(meta.publication_date, <<>>, <<"D">>)],
      [meta EXCEPT !.title = Other(meta.title, <<>>, <<"T">>)] }

NoResult == ValidationResult(FALSE, <<>>, <<>>)

InitFm ==
    /\ fmDoc \in FmDocs
    /\ fmMeta \in Metas
    /\ fmExpected \in ExpectedFor(fmMeta)
    /\ fmPc = "start"
    /\ fmInjected = <<>>
    /\ fmTwice = <<>>
    /\ fmResult = NoResult

IdleFm ==
    /\ fmDoc = <<>>
    /\ fmMeta = MarkdownMetadata(<<>>, <<>>, <<>>, <<>>)
    /\ fmExpected = fmMeta
    /\ fmPc = "off"
    /\ fmInjected = <<>>
    /\ fmTwice = <<>>
    /\ fmResult = NoResult

Inject ==
    /\ fmPc = "start"
    /\ fmInjected' = add_title_to_frontmatter(fmDoc, fmMeta)
    /\ fmPc' = "injected"
    /\ UNCHANGED <<fmDoc, fmMeta, fmExpected, fmTwice, fmResult>>

InjectAgain ==
    /\ fmPc = "injected"
    /\ fmTwice' = add_title_to_frontmatter(fmInjected, fmMeta)
    /\ fmPc' = "twice"
    /\ UNCHANGED <<fmDoc, fmMeta, fmExpected, fmInjected, fmResult>>

\* validate_frontmatter on the result of the injection
Validate ==
    /\ fmPc = "injected"
    /\ fmResult' = validate_frontmatter(fmInjected, fmExpected)
    /\ fmPc' = "validated"
    /\ UNCHANGED <<fmDoc, fmMeta, fmExpected, fmInjected, fmTwice>>

\* validate_frontmatter on the document as it came
ValidateRaw ==
    /\ fmPc = "start"
    /\ fmResult' = validate_frontmatter(fmDoc, fmExpected)
    /\ fmPc' = "validatedRaw"
    /\ UNCHANGED <<fmDoc, fmMeta, fmExpected, fmInjected, fmTwice>>

(***************************************************************************)
(* cli.py: main, step by step.                                             *)
(***************************************************************************)
\* how many lines an input file has at most
MaxDocLines == 3

MainLines ==
    { <<"#"," ","T">>,
      <<"*","*","D","a","t","e",":","*","*"," ","M","a","y"," ","2","0","1","5">>,
      <<"*","*","A","u","t","h","o","r","(","s",")",":","*","*"," ","A"," ","a","n","d"," ","C">>,
      <<"-","-","-">>,
      <<"k",":"," ","v">> }

\* the input files: up to MaxDocLines of MainLines, each ended by a line break
MainDocs ==
    UNION { {Flatten([i \in 1..n |-> ls[i] \o <<"\n">>]) : ls \in [1..n -> MainLines]} :
              n \in 0..MaxDocLines }

NoOutput == [exists |-> FALSE, text |-> <<>>]

OldOutput == [exists |-> TRUE, text |-> <<"o","l","d">>]

InitMain ==
    /\ mPc = "start"
    /\ mHasFile \in BOOLEAN
    /\ mDryRun \in BOOLEAN
    /\ mInput \in MainDocs
    /\ mContent = <<>>
    /\ mMetadata = MarkdownMetadata(<<>>, <<>>, <<>>, <<>>)
    /\ mModified = <<>>
    /\ mValidation = NoResult
    /\ mValidated = FALSE
    /\ mReadFailed = FALSE
    /\ mExit = -1
    /\ outDir \in BOOLEAN
    /\ outFile \in {NoOutput, OldOutput}
    /\ outFile.exists => outDir
    /\ outDir0 = outDir
    /\ outFile0 = outFile

IdleMain ==
    /\ mPc = "off"
    /\ mHasFile = FALSE
    /\ mDryRun = FALSE
    /\ mInput = <<>>
    /\ mContent = <<>>
    /\ mMetadata = MarkdownMetadata(<<>>, <<>>, <<>>, <<>>)
    /\ mModified = <<>>
    /\ mValidation = NoResult
    /\ mValidated = FALSE
    /\ mReadFailed = FALSE
    /\ mExit = -1
    /\ outDir = FALSE
    /\ outFile = NoOutput
    /\ outDir0 = outDir
    /\ outFile0 = outFile

\* lines 419-435: no FILENAME, the welcome panel and sys.exit(0)
MainShowHelp ==
    /\ mPc = "start"
    /\ ~mHasFile
    /\ mPc' = "done"
    /\ mExit' = 0
    /\ UNCHANGED <<mHasFile, mDryRun, mInput, mContent, mMetadata, mModified,
                   mValidation, mValidated, mReadFailed, outDir, outFile,
                   outDir0, outFile0>>

\* lines 437-448: the output directory is made unless this is a dry run
MainMkdir ==
    /\ mPc = "start"
    /\ mHasFile
    /\ outDir' = IF mDryRun THEN outDir ELSE TRUE
    /\ mPc' = "read"
    /\ UNCHANGED <<mHasFile, mDryRun, mInput, mContent, mMetadata, mModified,
                   mValidation, mValidated, mReadFailed, mExit, outFile,
                   outDir0, outFile0>>

\* line 442: mkdir raises; nothing catches it and the process ends with status 1
MainMkdirRaises ==
    /\ mPc = "start"
    /\ mHasFile
    /\ ~mDryRun
    /\ mPc' = "done"
    /\ mExit' = 1
    /\ UNCHANGED <<mHasFile, mDryRun, mInput, mContent, mMetadata, mModified,
                   mValidation, mValidated, mReadFailed, outDir, outFile,
                   outDir0, outFile0>>

\* lines 451-452: the file is read
MainRead ==
    /\ mPc = "read"
    /\ mContent' = mInput
    /\ mPc' = "process"
    /\ UNCHANGED <<mHasFile, mDryRun, mInput, mMetadata, mModified, mValidation,
                   mValidated, mReadFailed, mExit, outDir, outFile, outDir0, outFile0>>

\* lines 453-455: read_text raises, sys.exit(1)
MainReadFails ==
    /\ mPc = "read"
    /\ mReadFailed' = TRUE
    /\ mPc' = "done"
    /\ mExit' = 1
    /\ UNCHANGED <<mHasFile, mDryRun, mInput, mContent, mMetadata, mModified,
                   mValidation, mValidated, outDir, outFile, outDir0, outFile0>>

\* MainProcess without the sys.exit(1) of lines 474-476
MainProcessNoAbort ==
    /\ mPc = "process"
    /\ mMetadata' = extract_metadata_from_markdown(mContent)
    /\ mModified' = add_title_to_frontmatter(mContent, mMetadata')
    /\ mValidation' = validate_frontmatter(mModified', mMetadata')
    /\ mValidated' = TRUE
    /\ mPc' = "write"
    /\ mExit' = mExit
    /\ UNCHANGED <<mHasFile, mDryRun, mInput, mContent, mReadFailed, outDir,
                   outFile, outDir0, outFile0>>

\* lines 458-476: extract, inject, validate, and sys.exit(1) when not valid
MainProcess ==
    /\ mPc = "process"
    /\ mMetadata' = extract_metadata_from_markdown(mContent)
    /\ mModified' = add_title_to_frontmatter(mContent, mMetadata')
    /\ mValidation' = validate_frontmatter(mModified', mMetadata')
    /\ mValidated' = TRUE
    /\ IF mValidation'.is_valid
       THEN mPc' = "write" /\ mExit' = mExit
       ELSE mPc' = "done" /\ mExit' = 1
    /\ UNCHANGED <<mHasFile, mDryRun, mInput, mContent, mReadFailed, outDir,
                   outFile, outDir0, outFile0>>

\* lines 483-485: a dry run writes nothing
MainDryRun ==
    /\ mPc = "write"
    /\ mDryRun
    /\ mPc' = "done"
    /\ mExit' = 0
    /\ UNCHANGED <<mHasFile, mDryRun, mInput, mContent, mMetadata, mModified,
                   mValidation, mValidated, mReadFailed, outDir, outFile,
                   outDir0, outFile0>>

\* lines 487-490: the output file is written
MainWrite ==
    /\ mPc = "write"
    /\ ~mDryRun
    /\ outFile' = [exists |-> TRUE, text |-> mModified]
    /\ mPc' = "done"
    /\ mExit' = 0
    /\ UNCHANGED <<mHasFile, mDryRun, mInput, mContent, mMetadata, mModified,
                   mValidation, mValidated, mReadFailed, outDir, outDir0, outFile0>>

\* lines 491-493: write_text raises, before it opened the file or after it
\* had truncated it; sys.exit(1)
MainWriteFails ==
    /\ mPc = "write"
    /\ ~mDryRun
    /\ \/ outFile' = outFile
       \/ outFile' = [exists |-> TRUE, text |-> <<>>]
    /\ mPc' = "done"
    /\ mExit' = 1
    /\ UNCHANGED <<mHasFile, mDryRun, mInput, mContent, mMetadata, mModified,
                   mValidation, mValidated, mReadFailed, outDir, outDir0, outFile0>>

(***************************************************************************)
(* extract_metadata_from_markdown applied to documents.                    *)
(***************************************************************************)
\* how many lines a document of this part has at most
MaxExLines == 3

TitleMarker == <<"#"," ">>

AuthorsMarker == <<"*","*","A","u","t","h","o","r","(","s",")",":","*","*">>

PublicationMarker == <<"*","*","P","u","b","l","i","c","a","t","i","o","n",":","*","*">>

DateMarker == <<"*","*","D","a","t","e",":","*","*">>

\* the lines a document is made of: for each field its marker line with a
\* value, for the three ** fields the marker line with no value, and a line
\* of text
ExLineSet ==
    { TitleMarker \o <<"T">>,
      AuthorsMarker \o <<" ","A"," ","a","n","d"," ","C">>,
      AuthorsMarker,
      PublicationMarker \o <<" ","B">>,
      PublicationMarker,
      DateMarker \o <<" ","M","a","y"," ","2","0","1","5">>,
      DateMarker,
      <<"t","e","x","t">> }

\* the field a line is the marker line of; "none" for a line of text
FieldOf(line) ==
    IF OccursAt(line, TitleMarker, 1) THEN "title"
    ELSE IF OccursAt(line, AuthorsMarker, 1) THEN "authors"
    ELSE IF OccursAt(line, PublicationMarker, 1) THEN "book"
    ELSE IF OccursAt(line, DateMarker, 1) THEN "publication_date"
    ELSE "none"

Fields == {"title", "authors", "book", "publication_date"}

\* the lines of the field in a document
MarkerLines(lines, field) == {i \in DOMAIN lines : FieldOf(lines[i]) = field}

\* the documents: up to MaxExLines lines, at most one marker line per field
ExDocs ==
    {ls \in UNION {[1..n -> ExLineSet] : n \in 0..MaxExLines} :
        \A f \in Fields : Cardinality(MarkerLines(ls, f)) <= 1}

\* the text of a document: each line ended by a line break
TextOf(lines) == Flatten([i \in DOMAIN lines |-> lines[i] \o <<"\n">>])

\* the document without its line i
WithoutLine(lines, i) ==
    [k \in 1..(Len(lines) - 1) |-> IF k < i THEN lines[k] ELSE lines[k + 1]]

InitEx ==
    /\ exLines \in ExDocs
    /\ exPc = "start"
    /\ exMeta = MarkdownMetadata(<<>>, <<>>, <<>>, <<>>)
    /\ exDrop = 0
    /\ exMetaLess = exMeta

IdleEx ==
    /\ exLines = <<>>
    /\ exPc = "off"
    /\ exMeta = MarkdownMetadata(<<>>, <<>>, <<>>, <<>>)
    /\ exDrop = 0
    /\ exMetaLess = exMeta

\* extract_metadata_from_markdown on the document
Extract ==
    /\ exPc = "start"
    /\ exMeta' = extract_metadata_from_markdown(TextOf(exLines))
    /\ exPc' = "extracted"
    /\ UNCHANGED <<exLines, exDrop, exMetaLess>>

\* extract_metadata_from_markdown on the document without one marker line
ExtractWithout ==
    /\ exPc = "extracted"
    /\ \E i \in DOMAIN exLines :
          /\ FieldOf(exLines[i]) # "none"
          /\ exDrop' = i
          /\ exMetaLess' = extract_metadata_from_markdown(TextOf(WithoutLine(exLines, i)))
    /\ exPc' = "compared"
    /\ UNCHANGED <<exLines, exMeta>>

(***************************************************************************)
(* Specifications.                                                         *)
(***************************************************************************)
Init == InitSync /\ IdleDetect /\ IdleDate /\ IdleFm /\ IdleMain /\ IdleEx

Next ==
    \/ StartSync /\ UNCHANGED <<detVars, dateVars, fmVars, mainVars, exVars>>
    \/ PlanSkipSymlink /\ UNCHANGED <<detVars, dateVars, fmVars, mainVars, exVars>>
    \/ PlanExamine /\ UNCHANGED <<detVars, dateVars, fmVars, mainVars, exVars>>
    \/ PlanRaises /\ UNCHANGED <<detVars, dateVars, fmVars, mainVars, exVars>>
    \/ PlanDone /\ UNCHANGED <<detVars, dateVars, fmVars, mainVars, exVars>>
    \/ ExecDry /\ UNCHANGED <<detVars, dateVars, fmVars, mainVars, exVars>>
    \/ ExecCopy /\ UNCHANGED <<detVars, dateVars, fmVars, mainVars, exVars>>
    \/ ExecFail /\ UNCHANGED <<detVars, dateVars, fmVars, mainVars, exVars>>
    \/ ExecDone /\ UNCHANGED <<detVars, dateVars, fmVars, mainVars, exVars>>

\* the sync utility
Spec == Init /\ [][Next]_vars

InitDetectSpec == InitDetect /\ IdleSync /\ IdleDate /\ IdleFm /\ IdleMain /\ IdleEx

NextDetect == Detect /\ UNCHANGED <<syncVars, dateVars, fmVars, mainVars, exVars>>

\* should_sync_file
SpecDetect == InitDetectSpec /\ [][NextDetect]_vars

InitDateSpec == InitDate /\ IdleSync /\ IdleDetect /\ IdleFm /\ IdleMain /\ IdleEx

NextDate ==
    \/ Normalize /\ UNCHANGED <<syncVars, detVars, fmVars, mainVars, exVars>>
    \/ NormalizeAgain /\ UNCHANGED <<syncVars, detVars, fmVars, mainVars, exVars>>

\* normalize_date
SpecDate == InitDateSpec /\ [][NextDate]_vars

InitFmSpec == InitFm /\ IdleSync /\ IdleDetect /\ IdleDate /\ IdleMain /\ IdleEx

NextFm ==
    \/ Inject /\ UNCHANGED <<syncVars, detVars, dateVars, mainVars, exVars>>
    \/ InjectAgain /\ UNCHANGED <<syncVars, detVars, dateVars, mainVars, exVars>>
    \/ Validate /\ UNCHANGED <<syncVars, detVars, dateVars, mainVars, exVars>>
    \/ ValidateRaw /\ UNCHANGED <<syncVars, detVars, dateVars, mainVars, exVars>>

\* add_title_to_frontmatter and validate_frontmatter
SpecFm == InitFmSpec /\ [][NextFm]_vars

InitMainSpec == InitMain /\ IdleSync /\ IdleDetect /\ IdleDate /\ IdleFm /\ IdleEx

NextMain ==
    \/ MainShowHelp /\ UNCHANGED <<syncVars, detVars, dateVars, fmVars, exVars>>
    \/ MainMkdir /\ UNCHANGED <<syncVars, detVars, dateVars, fmVars, exVars>>
    \/ MainMkdirRaises /\ UNCHANGED <<syncVars, detVars, dateVars, fmVars, exVars>>
    \/ MainRead /\ UNCHANGED <<syncVars, detVars, dateVars, fmVars, exVars>>
    \/ MainReadFails /\ UNCHANGED <<syncVars, detVars, dateVars, fmVars, exVars>>
    \/ MainProcess /\ UNCHANGED <<syncVars, detVars, dateVars, fmVars, exVars>>
    \/ MainDryRun /\ UNCHANGED <<syncVars, detVars, dateVars, fmVars, exVars>>
    \/ MainWrite /\ UNCHANGED <<syncVars, detVars, dateVars, fmVars, exVars>>
    \/ MainWriteFails /\ UNCHANGED <<syncVars, detVars, dateVars, fmVars, exVars>>

\* the front-matter utility
SpecMain == InitMainSpec /\ [][NextMain]_vars

InitExSpec == InitEx /\ IdleSync /\ IdleDetect /\ IdleDate /\ IdleFm /\ IdleMain

NextEx ==
    \/ Extract /\ UNCHANGED <<syncVars, detVars, dateVars, fmVars, mainVars>>
    \/ ExtractWithout /\ UNCHANGED <<syncVars, detVars, dateVars, fmVars, mainVars>>

\* extract_metadata_from_markdown
SpecEx == InitExSpec /\ [][NextEx]_vars

(***************************************************************************)
(* Properties of the sync utility.                                         *)
(***************************************************************************)

\* the tiers of the change detection as the specification states them, on the
\* times and contents of the two files
TierOf(source, dest) ==
    IF dest.kind = "none" THEN <<TRUE, "NEW_FILE">>
    ELSE IF source.mtime - dest.mtime > TicksPerSecond THEN <<TRUE, "MTIME_NEWER">>
    ELSE IF dest.mtime - source.mtime > TicksPerSecond THEN <<FALSE, "None">>
    ELSE IF source.content # dest.content THEN <<TRUE, "CONTENT_CHANGED">>
    ELSE <<FALSE, "None">>

\* C1: for every pair of files should_sync_file returns (true, NewFile) when
\* the destination does not exist, else (true, SourceNewer) when the source is
\* more than 1.0 s newer, else, the times being within 1.0 s of each other,
\* (true, ContentChanged) when the contents differ and (false, none) when they
\* are equal, else (false, none); a reason comes exactly with a true answer.
C1_ShouldSyncTiers ==
    detOut # <<>> =>
        /\ detOut = TierOf(detSource, detDest)
        /\ detOut[1] = (detOut[2] \in {"NEW_FILE", "MTIME_NEWER", "CONTENT_CHANGED"})
        /\ detOut[1] = (detOut[2] # "None")

\* C1 witness: a destination exactly 1.0 s older than the source, with another
\* content, has been classified as ContentChanged
C1_Witness ==
    /\ detOut = <<TRUE, "CONTENT_CHANGED">>
    /\ detDest.kind = "file"
    /\ detSource.mtime = detDest.mtime + TicksPerSecond

\* the path of the destination tree that mirrors a path of the source tree
MirrorOf(source_path) == dest_dir \o Slice(source_path, Len(source_dir) + 1, Len(source_path))

\* p is a file of the destination tree that no file of the source tree
\* mirrored when the invocation started
DestOnlyBefore(p) ==
    /\ p \in AllPaths \ SourcePaths
    /\ files0[p].kind # "none"
    /\ \A q \in SourcePaths : files0[q].kind # "none" => MirrorOf(q) # p

\* C2: during and after a sync run every file that was only in the
\* destination tree is as it was, no file of the destination tree is gone,
\* every file written is the mirror of its source file under dest_dir, and
\* nothing else has changed.
C2_NeverDeletesMirrorsPaths ==
    /\ \A p \in AllPaths : DestOnlyBefore(p) => files[p] = files0[p]
    /\ \A p \in AllPaths : files0[p].kind # "none" => files[p].kind # "none"
    /\ \A w \in written : w[2] = MirrorOf(w[1])
    /\ \A p \in AllPaths : files[p] # files0[p] => \E w \in written : w[2] = p

\* C2 witness: a run in which one copy failed and one succeeded into a
\* subdirectory has ended, with a destination-only file in place
C2_Witness ==
    /\ pc = "done"
    /\ errors # <<>>
    /\ \E i \in DOMAIN synced : Len(synced[i].relative_path) > 1
    /\ \E p \in AllPaths : DestOnlyBefore(p)
    /\ files # files0

\* the candidates of the attempts whose outcome is ok
RECURSIVE AttemptsWith(_, _)
AttemptsWith(as, ok) ==
    IF as = <<>> THEN <<>>
    ELSE (IF as[1].ok = ok THEN <<as[1].candidate>> ELSE <<>>)
             \o AttemptsWith(Tail(as), ok)

\* C3: execute_sync, not in a dry run, takes up the candidates in the planned
\* order whatever fails; synced is the candidates that did not fail, in plan
\* order, errors holds one (source path, message) per candidate that failed,
\* in plan order, and at the end every candidate has been taken up and every
\* one that did not fail is copied.
C3_EveryCandidateAttempted ==
    (pc \in {"exec", "done"} /\ ~dry_run /\ ~planFailed) =>
        /\ Len(attempts) = execIdx - 1
        /\ \A i \in DOMAIN attempts : attempts[i].candidate = candidates[i]
        /\ synced = AttemptsWith(attempts, TRUE)
        /\ Len(errors) = Len(AttemptsWith(attempts, FALSE))
        /\ \A i \in DOMAIN errors :
              errors[i] = <<AttemptsWith(attempts, FALSE)[i].source_path, "error">>
        /\ pc = "done" =>
              /\ Len(attempts) = Len(candidates)
              /\ \A i \in DOMAIN attempts :
                    attempts[i].ok =>
                       /\ files[attempts[i].candidate.dest_path].kind = "file"
                       /\ files[attempts[i].candidate.dest_path].content
                             = files[attempts[i].candidate.source_path].content

\* C3 witness: the first candidate failed and a later one was copied
C3_Witness ==
    /\ pc = "done"
    /\ ~dry_run
    /\ Len(attempts) = 2
    /\ ~attempts[1].ok
    /\ attempts[2].ok
    /\ files[attempts[2].candidate.dest_path] # files0[attempts[2].candidate.dest_path]

\* C5 as stated: a failure while a file is examined is recorded as a per-file
\* error and the remaining source files are still examined.
C5_EveryFailureIsPerFile ==
    pc = "done" =>
        /\ planIdx > Len(scan)
        /\ planFailed => errors # <<>>

\* C5 as amended: a failure of mkdir or copy2 for a candidate is recorded as a
\* per-file error and the remaining candidates are still taken up; a failure
\* while a file is examined ends the invocation with status 1, with no
\* per-file error recorded and nothing copied.
C5_CopyFailuresArePerFile ==
    /\ (pc = "done" /\ planFailed) =>
          /\ exitCode = 1
          /\ errors = <<>>
          /\ synced = <<>>
          /\ attempts = <<>>
          /\ files = files0
    /\ (pc = "done" /\ ~planFailed) =>
          /\ planIdx > Len(scan)
          /\ Len(attempts) = Len(candidates)
          /\ \A i \in DOMAIN attempts :
                ~attempts[i].ok =>
                   \E j \in DOMAIN errors : errors[j][1] = attempts[i].candidate.source_path

\* C5 witness: an invocation ended by a failure while the second file was
\* examined, the first having been planned for copying
C5_Witness ==
    /\ pc = "done"
    /\ planFailed
    /\ planIdx = 2
    /\ Len(scan) = 2
    /\ candidates # <<>>

\* C9: an invocation ends with status 1 exactly when a per-file error was
\* recorded or planning failed, and with status 0 otherwise; what was copied
\* before a failure stays copied; an invocation with no candidates ends with
\* status 0 and the file system as it was.
C9_ExitStatus ==
    pc = "done" =>
        /\ exitCode \in {0, 1}
        /\ (exitCode = 1) = (errors # <<>> \/ planFailed)
        /\ \A i \in DOMAIN attempts :
              (attempts[i].ok /\ ~dry_run) =>
                 files[attempts[i].candidate.dest_path]
                    = [files[attempts[i].candidate.source_path] EXCEPT !.kind = "file"]
        /\ (candidates = <<>> /\ ~planFailed) =>
              /\ exitCode = 0
              /\ files = files0
              /\ attempts = <<>>

\* C9 witness: the first candidate was copied, the second failed, and the
\* invocation ended with status 1 and the first copy in place
C9_Witness ==
    /\ pc = "done"
    /\ exitCode = 1
    /\ Len(attempts) = 2
    /\ attempts[1].ok
    /\ ~attempts[2].ok
    /\ files[attempts[1].candidate.dest_path] # files0[attempts[1].candidate.dest_path]

(***************************************************************************)
(* Properties of add_title_to_frontmatter and validate_frontmatter.        *)
(***************************************************************************)
\* C4: a first injection validated against the metadata that was injected is
\* valid, whatever the document and the metadata, empty fields included.
C4_FirstInjectionValid ==
    (fmPc = "validated" /\ fmExpected = fmMeta) => fmResult.is_valid

TitleLine(metadata) == <<"T","i","t","l","e",":"," ","\"">> \o metadata.title \o <<"\"">>

AuthorEntry(author) == <<" "," ","-"," ","\"","[","[">> \o author \o <<"]","]","\"">>

BookLine(metadata) ==
    <<"B","o","o","k",":"," ","\"","[","[">> \o metadata.book \o <<"]","]","\"">>

DateLine(metadata) ==
    <<"D","a","t","e",":"," ","\"">> \o metadata.publication_date \o <<"\"">>

\* the lines of the new fields as the claim lists them
ClaimedLines(metadata) ==
    <<TitleLine(metadata), <<"A","u","t","h","o","r","s",":">>>>
    \o [i \in DOMAIN metadata.authors |-> AuthorEntry(metadata.authors[i])]
    \o <<BookLine(metadata), DateLine(metadata)>>

\* the lines of the new fields with the empty line that stands for no authors
AmendedLines(metadata) ==
    <<TitleLine(metadata), <<"A","u","t","h","o","r","s",":">>>>
    \o (IF metadata.authors = <<>> THEN << <<>> >>
        ELSE [i \in DOMAIN metadata.authors |-> AuthorEntry(metadata.authors[i])])
    \o <<BookLine(metadata), DateLine(metadata)>>

\* a document of one block: the lines, the text kept from the front matter
\* that was there, and the body
Block(lines, had, kept, body) ==
    <<"-","-","-","\n">> \o Join(lines, <<"\n">>)
    \o (IF had THEN <<"\n">> \o kept ELSE <<>>)
    \o <<"\n","-","-","-">> \o body

\* the body of a document: what follows its front matter, or a line break
\* and all of it when it has none
BodyOf(doc) == IF HasFrontmatter(doc) THEN AfterFrontmatter(doc) ELSE <<"\n">> \o doc

\* C7 as stated: the result is one block of the Title, Authors, author
\* entries, Book and Date lines, then every line of the front matter that was
\* there verbatim, then the body unchanged; a second injection leaves two
\* sets of the new fields.
C7_InjectKeepsVerbatim ==
    /\ fmPc \in {"injected", "twice", "validated"} =>
          fmInjected = Block(ClaimedLines(fmMeta), HasFrontmatter(fmDoc),
                             FrontmatterGroup(fmDoc), BodyOf(fmDoc))
    /\ fmPc = "twice" =>
          OccursAt(fmTwice,
                   Join(ClaimedLines(fmMeta) \o ClaimedLines(fmMeta), <<"\n">>), 5)

\* C7 as amended: the result is one block of the Title and Authors lines, one
\* entry per author or one empty line when there is none, the Book and Date
\* lines, then the text of the front matter that was there with the white
\* space at its two ends removed, then the body unchanged; a second injection
\* leaves two sets of the new fields, one after the other.
C7_InjectKeepsStripped ==
    /\ fmPc \in {"injected", "twice", "validated"} =>
          fmInjected = Block(AmendedLines(fmMeta), HasFrontmatter(fmDoc),
                             Strip(FrontmatterGroup(fmDoc)), BodyOf(fmDoc))
    /\ fmPc = "twice" =>
          /\ OccursAt(fmTwice,
                      Join(AmendedLines(fmMeta) \o AmendedLines(fmMeta), <<"\n">>), 5)
          /\ fmTwice = Block(AmendedLines(fmMeta), TRUE,
                             Strip(FrontmatterGroup(fmInjected)), AfterFrontmatter(fmInjected))

\* C7 witness: injected twice into a document whose front matter begins with
\* an empty line
C7_Witness ==
    /\ fmPc = "twice"
    /\ fmDoc = <<"-","-","-","\n","\n","k",":"," ","v","\n","-","-","-">>
    /\ fmMeta.authors # <<>>
    /\ fmMeta.title # <<>>

\* the messages of a sequence of errors or warnings
Messages(list) == {list[i][1] : i \in DOMAIN list}

C6_WriteOnlyAfterValid ==
    /\ outFile # outFile0 => (mValidated /\ mValidation.is_valid /\ ~mDryRun)
    /\ (mPc = "done" /\ ((mValidated /\ mValidation.errors # <<>>) \/ mReadFailed)) =>
          /\ mExit = 1
          /\ outFile = outFile0
    /\ (mValidated /\ mValidation.errors # <<>>) => (mPc = "done" /\ outFile = outFile0)
    /\ mReadFailed => (mPc = "done" /\ ~mValidated /\ outFile = outFile0)
    /\ mDryRun => (outFile = outFile0 /\ outDir = outDir0)

\* C6 witness: a run that was no dry run, had an output file from before and
\* ended on a validation error
C6_Witness ==
    /\ mPc = "done"
    /\ ~mDryRun
    /\ mValidated
    /\ mValidation.errors # <<>>
    /\ outFile0.exists
    /\ mExit = 1

(***************************************************************************)
(* Properties of normalize_date.                                           *)
(***************************************************************************)
\* the cleaned input: ASCII, stripped, runs of white space made one space
Cleaned(raw) == CollapseSpaces(Strip(clean_to_ascii(raw)))

\* four digits and nothing else
FourDigits(s) == Len(s) = 4 /\ \A k \in 1..4 : IsDigit(s[k])

\* s[i..j] is a word of letters, and s[i..j] is a number
IsLetterWordAt(s, i, j) ==
    /\ i <= j
    /\ \A k \in i..j : IsAlpha(s[k])
    /\ (i = 1 \/ ~IsAlpha(s[i - 1]))
    /\ (j = Len(s) \/ ~IsAlpha(s[j + 1]))

IsNumberAt(s, i, j) ==
    /\ i <= j
    /\ \A k \in i..j : IsDigit(s[k])
    /\ (i = 1 \/ ~IsDigit(s[i - 1]))
    /\ (j = Len(s) \/ ~IsDigit(s[j + 1]))

\* s has a word that is a month name or abbreviation
HasMonthName(s) ==
    \E i \in DOMAIN s, j \in DOMAIN s :
       IsLetterWordAt(s, i, j) /\ IsMonth(Slice(s, i, j))

\* s has a season or quarter keyword
HasSeason(s) ==
    \E k \in DOMAIN season_map : Contains(LowerStr(s), season_map[k][1])

\* s has a number of one or two digits from 1 to 12 joined by / or - to a
\* number of four digits, before it or after it
HasNumericMonth(s) ==
    \E i \in DOMAIN s, j \in DOMAIN s :
       /\ IsNumberAt(s, i, j)
       /\ j - i <= 1
       /\ ToInt(Slice(s, i, j)) \in 1..12
       /\ \/ /\ j + 5 <= Len(s)
             /\ s[j + 1] \in {"/", "-"}
             /\ IsNumberAt(s, j + 2, j + 5)
          \/ /\ i - 5 >= 1
             /\ s[i - 1] \in {"/", "-"}
             /\ IsNumberAt(s, i - 5, i - 2)

HasYearToken(s) == \E i \in DOMAIN s : YearAt(s, i)

\* C10: a bare year is returned only for an input that, cleaned, is that
\* year; an input with a year token, no month name, no season or quarter
\* keyword, no numeric month, that is not just the year, is returned cleaned
\* and otherwise unchanged; so is an input with no year token.
C10_OnlyWholeYearGivesYear ==
    dateDone =>
        /\ FourDigits(dateOut) => Cleaned(dateIn) = dateOut
        /\ (/\ HasYearToken(Cleaned(dateIn))
            /\ ~HasMonthName(Cleaned(dateIn))
            /\ ~HasSeason(Cleaned(dateIn))
            /\ ~HasNumericMonth(Cleaned(dateIn))
            /\ ~FourDigits(Cleaned(dateIn))) => dateOut = Cleaned(dateIn)
        /\ ~HasYearToken(Cleaned(dateIn)) => dateOut = Cleaned(dateIn)

(***************************************************************************)
(* Properties of extract_metadata_from_markdown.                           *)
(***************************************************************************)
\* C11: in a document with at most one marker line per field, a field with
\* no marker line is extracted empty, and leaving out the marker line of one
\* field leaves the values of the other three fields as they were.
C11_FieldsIndependent ==
    /\ exPc \in {"extracted", "compared"} =>
          \A f \in Fields : MarkerLines(exLines, f) = {} => exMeta[f] = <<>>
    /\ exPc = "compared" =>
          \A f \in Fields \ {FieldOf(exLines[exDrop])} : exMetaLess[f] = exMeta[f]

\* the words of letters that start at i and at m are two month names or
\* abbreviations joined by - or /, with white space allowed around the sign
MonthPair(s, i, m) ==
    /\ IsLetterWordAt(s, i, AlphaRunEnd(s, i))
    /\ IsLetterWordAt(s, m, AlphaRunEnd(s, m))
    /\ IsMonth(Slice(s, i, AlphaRunEnd(s, i)))
    /\ IsMonth(Slice(s, m, AlphaRunEnd(s, m)))
    /\ \E k \in (AlphaRunEnd(s, i) + 1)..(m - 1) :
          /\ s[k] \in {"-", "/"}
          /\ \A x \in ((AlphaRunEnd(s, i) + 1)..(m - 1)) \ {k} : IsSpace(s[x])

\* the year normalize_date takes: the first year token of s
FirstYear(s) ==
    LET i == Least({k \in DOMAIN s : YearAt(s, k)}) IN Slice(s, i, i + 3)

\* what the month-range rule gives for each pair of months of s
RangeForms(s) ==
    { MonthName(Slice(s, q[1], AlphaRunEnd(s, q[1]))) \o <<"-">>
         \o MonthName(Slice(s, q[2], AlphaRunEnd(s, q[2])))
         \o <<" ">> \o FirstYear(s) :
      q \in {p \in (DOMAIN s) \X (DOMAIN s) :
                IsAlpha(s[p[1]]) /\ IsAlpha(s[p[2]]) /\ MonthPair(s, p[1], p[2])} }

\* C12: an input whose cleaned text has a year token and, anywhere, two
\* months joined by - or / is returned as "<Month1>-<Month2> <year>",
\* whatever else the text holds.
C12_RangeRuleFirst ==
    (dateDone /\ HasYearToken(Cleaned(dateIn)) /\ RangeForms(Cleaned(dateIn)) # {})
        => dateOut \in RangeForms(Cleaned(dateIn))

\* C15: normalize_date applied to what normalize_date returned returns it
\* unchanged.
C15_Idempotent ==
    dateAgain => dateTwice = dateOut

\* C15 witness: a month range that was rewritten by the first pass and is
\* returned as it is by the second
C15_Witness ==
    /\ dateAgain
    /\ dateIn = <<"F","e","b","/","M","a","y",","," ","s","p","r","i","n","g"," ","2","0","1","5">>
    /\ dateOut = <<"F","e","b","r","u","a","r","y","-","M","a","y"," ","2","0","1","5">>
    /\ dateTwice = dateOut

(***************************************************************************)
(* Properties of repeated invocations of the sync utility.                 *)
(***************************************************************************)
\* the distance of two modification times
MtimeGap(a, b) == IF a >= b THEN a - b ELSE b - a

\* the invocation is no dry run, its plan was built and every copy succeeded
CleanRun == ~dry_run /\ ~planFailed /\ errors = <<>>

\* C13: at the end of an invocation that was no dry run and in which every
\* copy succeeded, each copied file has the content of its source and a
\* modification time within the tolerance of the source's; the invocation
\* after it plans no candidate, skips every file it examines and leaves the
\* file system as it was.
C13_SyncConverges ==
    /\ (pc = "done" /\ CleanRun) =>
          \A i \in DOMAIN candidates :
             /\ files[candidates[i].dest_path].kind = "file"
             /\ compute_file_hash(files[candidates[i].dest_path])
                   = compute_file_hash(files[candidates[i].source_path])
             /\ MtimeGap(files[candidates[i].dest_path].mtime,
                         files[candidates[i].source_path].mtime) <= MTIME_TOLERANCE
    /\ (prev.ran /\ ~prev.dry_run /\ prev.clean /\ pc \in {"plan", "exec", "done"}) =>
          /\ candidates = <<>>
          /\ synced = <<>>
          /\ files = files0
          /\ dirs = dirs0
          /\ pc # "exec"
          /\ (pc = "done" /\ ~planFailed) =>
                /\ exitCode = 0
                /\ \A p \in SourcePaths :
                      files[p].kind = "file" =>
                         \E k \in DOMAIN skipped : skipped[k] = relative_to(p, source_dir)

\* C13 witness: an invocation that copied two files, all copies succeeding,
\* followed by an invocation that ended with both files skipped
C13_Witness ==
    /\ prev.ran
    /\ ~prev.dry_run
    /\ prev.clean
    /\ Len(prev.candidates) = 2
    /\ pc = "done"
    /\ ~planFailed
    /\ Len(skipped) = 2

\* C14: a dry run leaves files and directories as they were; when it ends,
\* synced is the plan's candidates in plan order and there is no error; the
\* plan built by the invocation after it has the same candidates.
C14_DryRunChangesNothing ==
    /\ (dry_run /\ pc \in {"plan", "exec", "done"}) =>
          /\ files = files0
          /\ dirs = dirs0
          /\ written = {}
          /\ errors = <<>>
    /\ (dry_run /\ pc = "done" /\ ~planFailed) =>
          /\ synced = candidates
          /\ exitCode = 0
    /\ (/\ prev.ran
        /\ prev.dry_run
        /\ prev.clean
        /\ ~planFailed
        /\ pc \in {"plan", "exec", "done"}
        /\ planIdx > Len(scan)) => candidates = prev.candidates

\* C14 witness: a dry run that listed two candidates, followed by an
\* invocation whose plan is built and has the two candidates
C14_Witness ==
    /\ prev.ran
    /\ prev.dry_run
    /\ prev.clean
    /\ Len(prev.candidates) = 2
    /\ pc = "exec"
    /\ Len(candidates) = 2

=============================================================================
